---- MODULE Spec2Model ----
(***************************************************************************)
(* A model of the cogeotiff reader: CogLayer (header gate, IFD chain walk, *)
(* tag parsing, getTileRaw) over a chunked byte source.  The byte source   *)
(* (./cog.source) and the tag tables (./tif) are imported by the code but  *)
(* are not part of the sources at hand; they are modelled from the         *)
(* specification's sections 4.A, 4.B and 6.                                *)
(***************************************************************************)
EXTENDS Integers, Sequences, FiniteSets, TLC

(***************************************************************************)
(* Program constants.                                                      *)
(***************************************************************************)
VERSION_TIFF == 42
VERSION_BIGTIFF == 43
\* 0x4D4D
ENDIAN_BIG == 19789
\* 0x4949
ENDIAN_LITTLE == 18761
\* the chunk size of the byte source (a configuration knob; scenario S5 uses 32)
ChunkSize == 32

(***************************************************************************)
(* Bounds of the model: the tile coordinates and overview indexes the      *)
(* callers of getTileRaw try.                                              *)
(***************************************************************************)
MaxX == 3
MaxY == 2
MaxZ == 2
\* the concurrent callers of getTileRaw
Callers == {"a", "b"}

(***************************************************************************)
(* Tag registry (./tif): TIFF_TAG, TIFF_SIZE, TIFF_COMPRESSION.            *)
(***************************************************************************)
KnownTagCodes == {256, 257, 258, 259, 262, 277, 322, 323, 324, 325, 339,
                  33550, 33922, 34735, 34736, 34737}

TIFF_TAG(code) ==
    CASE code = 256 -> "ImageWidth"
      [] code = 257 -> "ImageLength"
      [] code = 258 -> "BitsPerSample"
      [] code = 259 -> "Compression"
      [] code = 262 -> "PhotometricInterpretation"
      [] code = 277 -> "SamplesPerPixel"
      [] code = 322 -> "TileWidth"
      [] code = 323 -> "TileLength"
      [] code = 324 -> "TileOffsets"
      [] code = 325 -> "TileByteCounts"
      [] code = 339 -> "SampleFormat"
      [] code = 33550 -> "ModelPixelScale"
      [] code = 33922 -> "ModelTiepoint"
      [] code = 34735 -> "GeoKeyDirectory"
      [] code = 34736 -> "GeoDoubleParams"
      [] code = 34737 -> "GeoAsciiParams"
      [] OTHER -> "undefined"

\* byte(1) ascii(1) short(2) long(4) rational(8) sbyte(1) undefined(1)
\* sshort(2) slong(4) srational(8) float(4) double(8)
KnownTypes == 1..12

TIFF_SIZE(type) ==
    CASE type \in {1, 2, 6, 7} -> 1
      [] type \in {3, 8} -> 2
      [] type \in {4, 9, 11} -> 4
      [] type \in {5, 10, 12} -> 8

TIFF_COMPRESSION(code) ==
    CASE code = 1 -> "none"
      [] code = 5 -> "image/x-lzw"
      [] code = 6 -> "image/jpeg"
      [] code = 7 -> "image/jpeg"
      [] code = 8 -> "image/deflate"
      [] code = 34712 -> "image/jp2"
      [] code = 50001 -> "image/webp"
      [] OTHER -> "undefined"

(***************************************************************************)
(* The streams the reader is run on, written as their bytes.               *)
(***************************************************************************)
LE16(v) == <<v % 256, v \div 256>>

LE32(v) == <<v % 256, (v \div 256) % 256, (v \div 65536) % 256, (v \div 16777216) % 256>>

\* a 12-byte IFD entry; value4 is the 4-byte value-or-offset field
Entry(code, type, count, value4) == LE16(code) \o LE16(type) \o LE32(count) \o value4

\* one inline SHORT
Short1(v) == LE16(v) \o <<0, 0>>

Header(endian, version, first) == LE16(endian) \o LE16(version) \o LE32(first)

\* scenario S1: header, then an IFD at 8 with tag count 0 and no room for the
\* next-IFD offset
FileMinimal == <<73, 73, 42, 0, 8, 0, 0, 0, 0, 0>>

\* scenario S2: the MM byte-order mark
FileBigEndian == <<77, 77, 0, 42, 0, 0, 0, 8>>

\* scenario S3: version 43
FileBigTiff == <<73, 73, 43, 0, 8, 0, 0, 0>>

FileOldVersion == Header(ENDIAN_LITTLE, 41, 8)

\* Two images.  Image 0 is 600 x 400 in 256 x 256 tiles (3 x 2 tiles, scenario
\* S6); its TileOffsets (6 SHORTs at 8) and TileByteCounts (6 BYTEs at 20) lie
\* before its IFD (at 26), in the chunk of the header.  Image 1 at 116 is
\* 512 x 256 (2 x 1 tiles) with both arrays inline (TileOffsets is exactly 4
\* bytes).  Tile payloads start at 250, in chunks that init() does not read;
\* tile 2 of image 0 lies across two chunks.
FileTiled ==
    Header(ENDIAN_LITTLE, VERSION_TIFF, 26)
    \o LE16(250) \o LE16(252) \o LE16(255) \o LE16(257) \o LE16(260) \o LE16(262)
    \o <<2, 3, 2, 3, 2, 3>>
    \o LE16(7)
    \o Entry(256, 3, 1, Short1(600))
    \o Entry(257, 3, 1, Short1(400))
    \o Entry(259, 3, 1, Short1(50001))
    \o Entry(322, 3, 1, Short1(256))
    \o Entry(323, 3, 1, Short1(256))
    \o Entry(324, 3, 6, LE32(8))
    \o Entry(325, 1, 6, LE32(20))
    \o LE32(116)
    \o LE16(6)
    \o Entry(256, 3, 1, Short1(512))
    \o Entry(257, 3, 1, Short1(256))
    \o Entry(322, 3, 1, Short1(256))
    \o Entry(323, 3, 1, Short1(256))
    \o Entry(324, 3, 2, LE16(265) \o LE16(267))
    \o Entry(325, 1, 2, <<2, 2, 0, 0>>)
    \o LE32(0)
    \o [n \in 1..56 |-> 0]
    \o <<101, 102, 103, 104, 105, 106, 107, 108, 109, 110, 111, 112, 113, 114, 115>>
    \o <<121, 122, 123, 124>>

\* scenario S5: one image, 512 x 512 in 256 x 256 tiles, IFD at 8; TileOffsets
\* (4 LONGs, 16 bytes) lies at 86, right after the IFD, reaching into a chunk
\* that is not resident when its entry is parsed.  TileByteCounts is inline.
FileLazy ==
    Header(ENDIAN_LITTLE, VERSION_TIFF, 8)
    \o LE16(6)
    \o Entry(256, 3, 1, Short1(512))
    \o Entry(257, 3, 1, Short1(512))
    \o Entry(322, 3, 1, Short1(256))
    \o Entry(323, 3, 1, Short1(256))
    \o Entry(324, 4, 4, LE32(86))
    \o Entry(325, 1, 4, <<2, 2, 2, 2>>)
    \o LE32(0)
    \o LE32(102) \o LE32(104) \o LE32(106) \o LE32(108)
    \o <<131, 132, 133, 134, 135, 136, 137, 138>>

\* Image 0 has tile arrays and TileLength but no TileWidth; image 1 has no tile
\* tag at all.
FileNotTiled ==
    Header(ENDIAN_LITTLE, VERSION_TIFF, 8)
    \o LE16(5)
    \o Entry(256, 3, 1, Short1(512))
    \o Entry(257, 3, 1, Short1(256))
    \o Entry(323, 3, 1, Short1(256))
    \o Entry(324, 3, 2, LE16(92) \o LE16(94))
    \o Entry(325, 1, 2, <<2, 2, 0, 0>>)
    \o LE32(74)
    \o LE16(1)
    \o Entry(256, 3, 1, Short1(512))
    \o LE32(0)
    \o <<141, 142, 143, 144>>

\* an entry with a tag code outside the registry, between two known ones
FileUnknownCode ==
    Header(ENDIAN_LITTLE, VERSION_TIFF, 8)
    \o LE16(3)
    \o Entry(256, 3, 1, Short1(600))
    \o Entry(999, 3, 1, Short1(7))
    \o Entry(257, 3, 1, Short1(400))
    \o LE32(0)

\* an entry with a type code outside the type-size table, between two known ones
FileUnknownType ==
    Header(ENDIAN_LITTLE, VERSION_TIFF, 8)
    \o LE16(3)
    \o Entry(256, 3, 1, Short1(600))
    \o Entry(257, 99, 1, Short1(400))
    \o Entry(322, 3, 1, Short1(256))
    \o LE32(0)

\* the same tag code in two entries
FileDuplicate ==
    Header(ENDIAN_LITTLE, VERSION_TIFF, 8)
    \o LE16(2)
    \o Entry(256, 3, 1, Short1(600))
    \o Entry(256, 3, 1, Short1(300))
    \o LE32(0)

\* the first IFD lies in the second chunk of the source
FileFar ==
    Header(ENDIAN_LITTLE, VERSION_TIFF, ChunkSize)
    \o [n \in 1..(ChunkSize - 8) |-> 0]
    \o LE16(1)
    \o Entry(256, 3, 1, Short1(600))
    \o LE32(0)

Files == {FileMinimal, FileBigEndian, FileBigTiff, FileOldVersion, FileTiled,
          FileLazy, FileNotTiled, FileUnknownCode, FileUnknownType,
          FileDuplicate, FileFar}

(***************************************************************************)
(* State.                                                                  *)
(***************************************************************************)
VARIABLES
    bytes,          \* the backing store: the stream's bytes
    chunks,         \* source._chunks: chunk id -> "empty" | "fetching" | "ready"
    requests,       \* range reads the backing store has received, per chunk id
    reads,          \* the (offset, length) ranges the source was asked to read
    version,        \* CogLayer.version (0 until read)
    isLittleEndian, \* CogLayer.isLittleEndian
    images,         \* CogLayer.images: each a map tag name -> value
    ifdOffsets,     \* the offset of the IFD each element of images was read at
    task,           \* the init() call: where it is suspended, and its locals
    image,          \* readIfd's local image (the IFD being parsed)
    parseLog,       \* for each entry decided: the chunks resident at that moment
    calls,          \* the getTileRaw calls, per caller
    tags,           \* CogTifImage.tags: the value held for each geo tag
    got             \* what each CogTifImage variant's accessors gave, once called

vars == <<bytes, chunks, requests, reads, version, isLittleEndian, images,
          ifdOffsets, task, image, parseLog, calls, tags, got>>

(***************************************************************************)
(* Byte source (./cog.source): chunk table, typed reads.                   *)
(***************************************************************************)
\* a byte of the stream; a read past the end that does not fail yields 0
Byte(o) == IF o >= 0 /\ o < Len(bytes) THEN bytes[o + 1] ELSE 0

U16(o) == Byte(o) + 256 * Byte(o + 1)

U32(o) == Byte(o) + 256 * Byte(o + 1) + 65536 * Byte(o + 2) + 16777216 * Byte(o + 3)

\* an unsigned little-endian integer of size bytes
UInt(o, size) == IF size = 1 THEN Byte(o) ELSE IF size = 2 THEN U16(o) ELSE U32(o)

NumChunks(stream) == (Len(stream) + ChunkSize - 1) \div ChunkSize

\* the chunk ids a read of length bytes at offset is translated to
Covered(offset, length) == (offset \div ChunkSize)..((offset + length - 1) \div ChunkSize)

\* hasBytes(offset, length?): all covered chunks are ready; without a length
\* the chunk of offset alone is looked at
HasBytes(ch, offset, length) ==
    \A k \in Covered(offset, length) : k \in DOMAIN ch /\ ch[k] = "ready"

HasByte(ch, offset) == HasBytes(ch, offset, 1)

\* a read issues a fetch for every covered chunk that is still empty
ToFetch_Refetch(ch, offset, length) ==
    {k \in Covered(offset, length) \cap DOMAIN ch : ch[k] # "ready"}

\* the chunks a read must fetch: a chunk that is ready is served from cache,
\* one that is fetching is waited for
ToFetch(ch, offset, length) ==
    {k \in Covered(offset, length) \cap DOMAIN ch : ch[k] = "empty"}

\* the read can be served: every covered chunk of the stream is ready
Served(ch, offset, length) ==
    \A k \in Covered(offset, length) \cap DOMAIN ch : ch[k] = "ready"

\* the read reaches past the end of the stream
PastEnd(offset, length) == offset + length > Len(bytes)

\* readType(offset, type, count): count elements of the type's size; a single
\* element collapses to a scalar.  The integer types are decoded; the streams
\* above hold no other.
ReadType(offset, type, count) ==
    LET size == TIFF_SIZE(type)
        elems == [n \in 1..count |-> UInt(offset + (n - 1) * size, size)]
    IN  IF count = 1 THEN [k |-> "num", v |-> elems[1]]
                     ELSE [k |-> "arr", v |-> elems]

\* getBytes(offset, length)
GetBytes(offset, length) == [n \in 1..length |-> Byte(offset + n - 1)]

(***************************************************************************)
(* init(): fetchHeader, processIfd, readIfd.  The task is suspended at     *)
(* each source read; an action is the code from one resumption to the next *)
(* suspension, the issue of the next read included.                        *)
(***************************************************************************)
EmptyImage == [n \in {} |-> 0]

NewTask == [pc |-> "new", offset |-> 0, tagCount |-> 0, i |-> 0, tagCode |-> 0,
            tagType |-> 0, count |-> 0, valueOffset |-> 0, error |-> "none"]

\* pos = byteStart + 12 * i
Pos(t) == t.offset + 2 + 12 * t.i

\* count * typeSize.length
TagLen(t) == t.count * TIFF_SIZE(t.tagType)

ReadingPcs == {"endian", "version", "first", "tagCount", "tagCode", "tagType",
               "count", "inline", "valueOffset", "value", "nextOffset"}

\* the read the task is suspended on
PendingRead(t) ==
    CASE t.pc = "endian" -> [offset |-> 0, length |-> 2]
      [] t.pc = "version" -> [offset |-> 2, length |-> 2]
      [] t.pc = "first" -> [offset |-> 4, length |-> 4]
      [] t.pc = "tagCount" -> [offset |-> t.offset, length |-> 2]
      [] t.pc = "tagCode" -> [offset |-> Pos(t), length |-> 2]
      [] t.pc = "tagType" -> [offset |-> Pos(t) + 2, length |-> 2]
      [] t.pc = "count" -> [offset |-> Pos(t) + 4, length |-> 4]
      [] t.pc = "inline" -> [offset |-> Pos(t) + 8, length |-> TagLen(t)]
      [] t.pc = "valueOffset" -> [offset |-> Pos(t) + 8, length |-> 4]
      [] t.pc = "value" -> [offset |-> t.valueOffset, length |-> TagLen(t)]
      [] t.pc = "nextOffset" -> [offset |-> t.offset + t.tagCount * 12 + 2, length |-> 4]

\* the task is resumed: the read it waits for has been served
Resumed(pc) ==
    /\ task.pc = pc
    /\ Served(chunks, PendingRead(task).offset, PendingRead(task).length)

\* the task goes on to t and suspends on t's read
Await(t) ==
    LET r == PendingRead(t)
        f == ToFetch(chunks, r.offset, r.length)
    IN  /\ task' = t
        /\ chunks' = [k \in DOMAIN chunks |-> IF k \in f THEN "fetching" ELSE chunks[k]]
        /\ requests' = [k \in DOMAIN requests |-> IF k \in f THEN requests[k] + 1 ELSE requests[k]]
        /\ reads' = reads \cup {r}

\* the task ends (resolved or rejected) without a further read
Settle(t) ==
    /\ task' = t
    /\ UNCHANGED <<chunks, requests, reads>>

Throw(error) == Settle([task EXCEPT !.pc = "failed", !.error = error])

\* the for loop of readIfd goes on to its next entry, or leaves the loop
NextEntry(t) ==
    IF t.i + 1 < t.tagCount
    THEN [t EXCEPT !.pc = "tagCode", !.i = t.i + 1]
    ELSE [t EXCEPT !.pc = "nextOffset"]

\* the chunks resident when entry i of the IFD at offset is decided
Logged(t) == [offset |-> t.offset, i |-> t.i,
              ready |-> {k \in DOMAIN chunks : chunks[k] = "ready"}]

\* init(): fetchHeader() up to its first read
CallInit ==
    /\ task.pc = "new"
    /\ Await([task EXCEPT !.pc = "endian"])
    /\ UNCHANGED <<bytes, version, isLittleEndian, images, ifdOffsets, image, parseLog, calls>>
    /\ UNCHANGED <<tags, got>>

\* fetchHeader: the byte-order mark
ReadEndian ==
    /\ Resumed("endian")
    /\ isLittleEndian' = (U16(0) = ENDIAN_LITTLE)
    /\ IF U16(0) # ENDIAN_LITTLE
       THEN Throw("UnsupportedByteOrder")
       ELSE Await([task EXCEPT !.pc = "version"])
    /\ UNCHANGED <<bytes, version, images, ifdOffsets, image, parseLog, calls>>
    /\ UNCHANGED <<tags, got>>

VersionOk_AcceptBigTiff(v) == v = VERSION_TIFF \/ v = VERSION_BIGTIFF

\* fetchHeader: the version gate
VersionOk(v) == v # VERSION_BIGTIFF /\ v = VERSION_TIFF

ReadVersion ==
    /\ Resumed("version")
    /\ version' = U16(2)
    /\ IF ~VersionOk(U16(2))
       THEN Throw("UnsupportedVersion")
       ELSE Await([task EXCEPT !.pc = "first"])
    /\ UNCHANGED <<bytes, isLittleEndian, images, ifdOffsets, image, parseLog, calls>>
    /\ UNCHANGED <<tags, got>>

\* fetchHeader: the first IFD offset; processIfd and readIfd up to the tag count
ReadFirstOffset ==
    /\ Resumed("first")
    /\ IF ~HasByte(chunks, U32(4))
       THEN Throw("OffsetOutOfRange") /\ UNCHANGED image
       ELSE /\ Await([task EXCEPT !.pc = "tagCount", !.offset = U32(4)])
            /\ image' = EmptyImage
    /\ UNCHANGED <<bytes, version, isLittleEndian, images, ifdOffsets, parseLog, calls>>
    /\ UNCHANGED <<tags, got>>

\* readIfd: the tag count, then the first entry's code (or, with no entry,
\* the next IFD offset)
ReadTagCount ==
    /\ Resumed("tagCount")
    /\ LET n == U16(task.offset)
       IN  Await(IF n > 0
                 THEN [task EXCEPT !.pc = "tagCode", !.tagCount = n, !.i = 0]
                 ELSE [task EXCEPT !.pc = "nextOffset", !.tagCount = n, !.i = 0])
    /\ UNCHANGED <<bytes, version, isLittleEndian, images, ifdOffsets, image, parseLog, calls>>
    /\ UNCHANGED <<tags, got>>

\* readIfd: an entry's tag code; an unknown code is passed over
ReadTagCode ==
    /\ Resumed("tagCode")
    /\ LET code == U16(Pos(task))
       IN  IF TIFF_TAG(code) = "undefined"
           THEN Await(NextEntry([task EXCEPT !.tagCode = code]))
           ELSE Await([task EXCEPT !.pc = "tagType", !.tagCode = code])
    /\ UNCHANGED <<bytes, version, isLittleEndian, images, ifdOffsets, image, parseLog, calls>>
    /\ UNCHANGED <<tags, got>>

\* readIfd: an entry's type; typeSize is looked up, the count is read next
ReadTagType ==
    /\ Resumed("tagType")
    /\ Await([task EXCEPT !.pc = "count", !.tagType = U16(Pos(task) + 2)])
    /\ UNCHANGED <<bytes, version, isLittleEndian, images, ifdOffsets, image, parseLog, calls>>
    /\ UNCHANGED <<tags, got>>

InlineBranch_Strict(tagLen) == tagLen < 4

\* readIfd: the value is held in the entry itself
InlineBranch(tagLen) == tagLen <= 4

\* readIfd: an entry's count; typeSize.length throws when the type is not in
\* TIFF_SIZE
ReadCount ==
    /\ Resumed("count")
    /\ LET t == [task EXCEPT !.count = U32(Pos(task) + 4)]
       IN  IF task.tagType \notin KnownTypes
           THEN Throw("TypeError")
           ELSE IF InlineBranch(TagLen(t))
                THEN Await([t EXCEPT !.pc = "inline"])
                ELSE Await([t EXCEPT !.pc = "valueOffset"])
    /\ UNCHANGED <<bytes, version, isLittleEndian, images, ifdOffsets, image, parseLog, calls>>
    /\ UNCHANGED <<tags, got>>

\* readIfd: an inline value is decoded from the entry
ReadInline ==
    /\ Resumed("inline")
    /\ image' = (TIFF_TAG(task.tagCode) :> ReadType(Pos(task) + 8, task.tagType, task.count)) @@ image
    /\ parseLog' = parseLog \cup {Logged(task)}
    /\ Await(NextEntry(task))
    /\ UNCHANGED <<bytes, version, isLittleEndian, images, ifdOffsets, calls>>
    /\ UNCHANGED <<tags, got>>

\* readIfd: the value is out of line and its bytes are not resident
StoreLazy(ch, valueOffset, tagLen) == ~HasBytes(ch, valueOffset, tagLen)

\* readIfd: an out-of-line value's offset; the value is read if its bytes are
\* resident and is left as a closure over (valueOffset, tagType, count) if not
ReadValueOffset ==
    /\ Resumed("valueOffset")
    /\ LET t == [task EXCEPT !.valueOffset = U32(Pos(task) + 8)]
       IN  IF StoreLazy(chunks, t.valueOffset, TagLen(t))
           THEN /\ image' = (TIFF_TAG(t.tagCode) :>
                                [k |-> "lazy", offset |-> t.valueOffset,
                                 type |-> t.tagType, count |-> t.count]) @@ image
                /\ parseLog' = parseLog \cup {Logged(t)}
                /\ Await(NextEntry(t))
           ELSE /\ Await([t EXCEPT !.pc = "value"])
                /\ parseLog' = parseLog \cup {Logged(t)}
                /\ UNCHANGED image
    /\ UNCHANGED <<bytes, version, isLittleEndian, images, ifdOffsets, calls>>
    /\ UNCHANGED <<tags, got>>

\* readIfd: an out-of-line value that was resident is decoded
ReadValue ==
    /\ Resumed("value")
    /\ image' = (TIFF_TAG(task.tagCode) :> ReadType(task.valueOffset, task.tagType, task.count)) @@ image
    /\ Await(NextEntry(task))
    /\ UNCHANGED <<bytes, version, isLittleEndian, images, ifdOffsets, parseLog, calls>>
    /\ UNCHANGED <<tags, got>>

PushImage_Front(imgs, img) == <<img>> \o imgs

PushImage_SkipEmpty(imgs, img) == IF DOMAIN img = {} THEN imgs ELSE Append(imgs, img)

\* processIfd: this.images.push(ifd.image)
PushImage(imgs, img) == Append(imgs, img)

\* readIfd returns the next IFD offset; processIfd pushes the image and goes
\* on to the next IFD when the offset is not 0
ReadNextOffset ==
    /\ Resumed("nextOffset")
    /\ LET nextOffset == U32(task.offset + task.tagCount * 12 + 2)
       IN  /\ images' = PushImage(images, image)
           /\ ifdOffsets' = Append(ifdOffsets, task.offset)
           /\ IF nextOffset # 0
              THEN /\ Await([task EXCEPT !.pc = "tagCount", !.offset = nextOffset])
                   /\ image' = EmptyImage
              ELSE /\ Settle([task EXCEPT !.pc = "done"])
                   /\ UNCHANGED image
    /\ UNCHANGED <<bytes, version, isLittleEndian, parseLog, calls>>
    /\ UNCHANGED <<tags, got>>

\* a read that reaches past the end of the stream: the source may fail it
\* (ShortRead) instead of serving what there is
ShortRead ==
    /\ task.pc \in ReadingPcs
    /\ Resumed(task.pc)
    /\ PastEnd(PendingRead(task).offset, PendingRead(task).length)
    /\ Throw("ShortRead")
    /\ UNCHANGED <<bytes, version, isLittleEndian, images, ifdOffsets, image, parseLog, calls>>
    /\ UNCHANGED <<tags, got>>

\* the backing store answers a range read: the chunk becomes ready
FetchComplete(k) ==
    /\ chunks[k] = "fetching"
    /\ chunks' = [chunks EXCEPT ![k] = "ready"]
    /\ UNCHANGED <<bytes, requests, reads, version, isLittleEndian, images,
                   ifdOffsets, task, image, parseLog, calls>>
    /\ UNCHANGED <<tags, got>>

(***************************************************************************)
(* getTileRaw(x, y, z).  The values of the untyped code are kept apart: a  *)
(* number that may be NaN is [nan, v], a value that may be undefined is    *)
(* [def, v].                                                               *)
(***************************************************************************)
IdleCall == [pc |-> "idle", x |-> 0, y |-> 0, z |-> 0, offset |-> 0, byteCount |-> 0,
             undef |-> FALSE, joined |-> FALSE, mimeType |-> "undefined",
             bytes |-> <<>>, error |-> "none"]

IsNum(img, name) == name \in DOMAIN img /\ img[name].k = "num"

CeilDiv(a, b) == (a + b - 1) \div b

\* TIFF_COMPRESSION[image.Compression]
MimeType(img) ==
    IF IsNum(img, "Compression") THEN TIFF_COMPRESSION(img["Compression"].v) ELSE "undefined"

\* Math.ceil(image.ImageLength / image.TileLength): NaN unless both are
\* numbers (no stream above has a TileLength of 0)
NyTiles(img) ==
    IF IsNum(img, "ImageLength") /\ IsNum(img, "TileLength") /\ img["TileLength"].v > 0
    THEN [nan |-> FALSE, v |-> CeilDiv(img["ImageLength"].v, img["TileLength"].v)]
    ELSE [nan |-> TRUE, v |-> 0]

\* idx = y * nyTiles + x
TileIdx(x, y, img) ==
    LET nyTiles == NyTiles(img)
    IN  [nan |-> nyTiles.nan, v |-> y * nyTiles.v + x]

\* value.length: an array's length, 0 for a closure without parameters,
\* undefined for a number
LengthOf(value) ==
    CASE value.k = "arr" -> [def |-> TRUE, v |-> Len(value.v)]
      [] value.k = "lazy" -> [def |-> TRUE, v |-> 0]
      [] OTHER -> [def |-> FALSE, v |-> 0]

\* idx > image.TileOffsets.length: false when either side is NaN or undefined
TileMissing(idx, img) ==
    LET length == LengthOf(img["TileOffsets"])
    IN  ~idx.nan /\ length.def /\ idx.v > length.v

\* value[idx]: an element of an array; undefined for an index that is NaN or
\* outside the array, and for a closure or a number
ElementOf(value, idx) ==
    IF value.k = "arr" /\ ~idx.nan /\ idx.v >= 0 /\ idx.v < Len(value.v)
    THEN [def |-> TRUE, v |-> value.v[idx.v + 1]]
    ELSE [def |-> FALSE, v |-> 0]

\* getTileRaw up to its await: the image, the index, the offset and byte
\* count, and the call of source.getBytes.  Callers call it once init() has
\* settled.
GetTileRaw(c, x, y, z) ==
    /\ task.pc \in {"done", "failed"}
    /\ calls[c].pc = "idle"
    /\ LET call == [IdleCall EXCEPT !.x = x, !.y = y, !.z = z]
           fail(e) == /\ calls' = [calls EXCEPT ![c] = [call EXCEPT !.pc = "failed", !.error = e]]
                      /\ UNCHANGED <<chunks, requests, reads>>
       IN  IF z >= Len(images)
           THEN fail("NoSuchOverview")
           ELSE LET img == images[z + 1]
                    idx == TileIdx(x, y, img)
                IN  IF "TileOffsets" \notin DOMAIN img
                    THEN fail("TypeError")
                    ELSE IF TileMissing(idx, img)
                    THEN fail("TileOutOfRange")
                    ELSE IF "TileByteCounts" \notin DOMAIN img
                    THEN fail("TypeError")
                    ELSE LET offset == ElementOf(img["TileOffsets"], idx)
                             byteCount == ElementOf(img["TileByteCounts"], idx)
                             f == ToFetch(chunks, offset.v, byteCount.v)
                         IN  IF ~offset.def \/ ~byteCount.def
                             THEN /\ calls' = [calls EXCEPT ![c] =
                                        [call EXCEPT !.pc = "waiting", !.undef = TRUE,
                                                     !.mimeType = MimeType(img)]]
                                  /\ UNCHANGED <<chunks, requests, reads>>
                             ELSE /\ calls' = [calls EXCEPT ![c] =
                                        [call EXCEPT !.pc = "waiting",
                                                     !.offset = offset.v,
                                                     !.byteCount = byteCount.v,
                                                     !.mimeType = MimeType(img),
                                                     !.joined = \E k \in Covered(offset.v, byteCount.v) :
                                                                   k \in DOMAIN chunks /\ chunks[k] = "fetching"]]
                                  /\ chunks' = [k \in DOMAIN chunks |->
                                                   IF k \in f THEN "fetching" ELSE chunks[k]]
                                  /\ requests' = [k \in DOMAIN requests |->
                                                     IF k \in f THEN requests[k] + 1 ELSE requests[k]]
                                  /\ reads' = reads \cup {[offset |-> offset.v, length |-> byteCount.v]}
    /\ UNCHANGED <<bytes, version, isLittleEndian, images, ifdOffsets, task, image, parseLog>>
    /\ UNCHANGED <<tags, got>>

\* getTileRaw after its await: the tile's bytes are returned
TileResolve(c) ==
    /\ calls[c].pc = "waiting"
    /\ ~calls[c].undef
    /\ Served(chunks, calls[c].offset, calls[c].byteCount)
    /\ calls' = [calls EXCEPT ![c].pc = "done",
                              ![c].bytes = GetBytes(calls[c].offset, calls[c].byteCount)]
    /\ UNCHANGED <<bytes, chunks, requests, reads, version, isLittleEndian, images,
                   ifdOffsets, task, image, parseLog>>
    /\ UNCHANGED <<tags, got>>

\* source.getBytes(undefined, undefined): what the source does with it is not
\* laid down; it resolves without bytes ...
TileUndefinedResolve(c) ==
    /\ calls[c].pc = "waiting"
    /\ calls[c].undef
    /\ calls' = [calls EXCEPT ![c].pc = "done"]
    /\ UNCHANGED <<bytes, chunks, requests, reads, version, isLittleEndian, images,
                   ifdOffsets, task, image, parseLog>>
    /\ UNCHANGED <<tags, got>>

\* ... or rejects
TileUndefinedReject(c) ==
    /\ calls[c].pc = "waiting"
    /\ calls[c].undef
    /\ calls' = [calls EXCEPT ![c].pc = "failed", ![c].error = "BadRead"]
    /\ UNCHANGED <<bytes, chunks, requests, reads, version, isLittleEndian, images,
                   ifdOffsets, task, image, parseLog>>
    /\ UNCHANGED <<tags, got>>

(***************************************************************************)
(* CogTifImage: the geo accessors origin and resolution, in the two        *)
(* variants of the class.  A tag's value is null (the tag is not in the    *)
(* map, or holds no value) or an array of numbers.                         *)
(***************************************************************************)
\* the longest ModelTiepoint array tried
MaxTiePoints == 7
\* arrays tried start at 1..MaxCoord + 1
MaxCoord == 1

Null == [k |-> "null", v |-> <<>>]

Arr(len, base) == [k |-> "arr", v |-> [n \in 1..len |-> base + n]]

TiePointInputs == {Null} \cup {Arr(len, base) : len \in 0..MaxTiePoints, base \in 0..MaxCoord}

\* ModelPixelScale, where present, holds its three scales
PixelScaleInputs == {Null} \cup {Arr(3, base) : base \in 0..MaxCoord}

\* the class with the back-reference to its CogTif, and the one without
Variants == {"withTif", "plain"}

NotCalled == [k |-> "none", v |-> <<>>, error |-> "none"]

Returned(v) == [k |-> "value", v |-> v, error |-> "none"]

ReturnedNull == [k |-> "null", v |-> <<>>, error |-> "none"]

Thrown(error) == [k |-> "throw", v |-> <<>>, error |-> error]

\* value(tag)
Value(t, tag) == t[tag]

\* Array.prototype.slice(start)
Slice(v, start) == SubSeq(v, start + 1, Len(v))

\* get origin, of the class without the back-reference
OriginPlain(t) ==
    LET tiePoints == Value(t, "ModelTiepoint")
    IN  IF tiePoints.k = "null"
        THEN ReturnedNull
        ELSE IF Len(tiePoints.v) = 6
        THEN Returned(Slice(tiePoints.v, 3))
        ELSE ReturnedNull

\* get resolution, of the class without the back-reference
ResolutionPlain(t) ==
    LET modelPixelScale == Value(t, "ModelPixelScale")
    IN  IF modelPixelScale.k = "null"
        THEN ReturnedNull
        ELSE Returned(<<modelPixelScale.v[1], -modelPixelScale.v[2], modelPixelScale.v[3]>>)

\* get origin, of the class with the back-reference
OriginWithTif(t) ==
    LET tiePoints == Value(t, "ModelTiepoint")
    IN  IF tiePoints.k = "null" \/ Len(tiePoints.v) # 6
        THEN Thrown("MissingTag(ModelTiepoint)")
        ELSE Returned(Slice(tiePoints.v, 3))

\* get resolution, of the class with the back-reference
ResolutionWithTif(t) ==
    LET modelPixelScale == Value(t, "ModelPixelScale")
    IN  IF modelPixelScale.k = "null"
        THEN Thrown("MissingTag(ModelPixelScale)")
        ELSE Returned(<<modelPixelScale.v[1], -modelPixelScale.v[2], modelPixelScale.v[3]>>)

readerVars == <<bytes, chunks, requests, reads, version, isLittleEndian, images,
                ifdOffsets, task, image, parseLog, calls>>

\* image.origin is read
GetOrigin(variant) ==
    /\ got' = [got EXCEPT ![variant].origin =
                  IF variant = "withTif" THEN OriginWithTif(tags) ELSE OriginPlain(tags)]
    /\ UNCHANGED <<tags, readerVars>>

\* image.resolution is read
GetResolution(variant) ==
    /\ got' = [got EXCEPT ![variant].resolution =
                  IF variant = "withTif" THEN ResolutionWithTif(tags) ELSE ResolutionPlain(tags)]
    /\ UNCHANGED <<tags, readerVars>>

(***************************************************************************)
(* The specification.                                                      *)
(***************************************************************************)
Init ==
    /\ bytes \in Files
    /\ chunks = [k \in 0..(NumChunks(bytes) - 1) |-> "empty"]
    /\ requests = [k \in 0..(NumChunks(bytes) - 1) |-> 0]
    /\ reads = {}
    /\ version = 0
    /\ isLittleEndian = FALSE
    /\ images = <<>>
    /\ ifdOffsets = <<>>
    /\ task = NewTask
    /\ image = EmptyImage
    /\ parseLog = {}
    /\ calls = [c \in Callers |-> IdleCall]
    /\ tags = [ModelTiepoint |-> Null, ModelPixelScale |-> Null]
    /\ got = [variant \in Variants |-> [origin |-> NotCalled, resolution |-> NotCalled]]

Next ==
    \/ CallInit
    \/ ReadEndian
    \/ ReadVersion
    \/ ReadFirstOffset
    \/ ReadTagCount
    \/ ReadTagCode
    \/ ReadTagType
    \/ ReadCount
    \/ ReadInline
    \/ ReadValueOffset
    \/ ReadValue
    \/ ReadNextOffset
    \/ ShortRead
    \/ \E k \in DOMAIN chunks : FetchComplete(k)
    \/ \E c \in Callers, x \in 0..MaxX, y \in 0..MaxY, z \in 0..MaxZ : GetTileRaw(c, x, y, z)
    \/ \E c \in Callers : TileResolve(c)
    \/ \E c \in Callers : TileUndefinedResolve(c)
    \/ \E c \in Callers : TileUndefinedReject(c)

Spec == Init /\ [][Next]_vars

\* a CogTifImage with any of the tag values tried, its accessors not yet read;
\* the reader does not run
InitImage ==
    /\ bytes = FileMinimal
    /\ chunks = [k \in 0..(NumChunks(bytes) - 1) |-> "empty"]
    /\ requests = [k \in 0..(NumChunks(bytes) - 1) |-> 0]
    /\ reads = {}
    /\ version = 0
    /\ isLittleEndian = FALSE
    /\ images = <<>>
    /\ ifdOffsets = <<>>
    /\ task = NewTask
    /\ image = EmptyImage
    /\ parseLog = {}
    /\ calls = [c \in Callers |-> IdleCall]
    /\ tags \in [ModelTiepoint : TiePointInputs, ModelPixelScale : PixelScaleInputs]
    /\ got = [variant \in Variants |-> [origin |-> NotCalled, resolution |-> NotCalled]]

NextImage ==
    \/ \E variant \in Variants : GetOrigin(variant)
    \/ \E variant \in Variants : GetResolution(variant)

SpecImage == InitImage /\ [][NextImage]_vars

(***************************************************************************)
(* The stream as the TIFF layout lays it out, read straight from its       *)
(* bytes: what the properties below compare the reader's state against.    *)
(***************************************************************************)
\* the next-IFD offset stored after the IFD at offset o
IfdNext(o) == U32(o + 2 + 12 * U16(o))

RECURSIVE ChainOffset(_)
\* the offset of the n-th IFD of the chain (n = 1 is the first)
ChainOffset(n) == IF n = 1 THEN U32(4) ELSE IfdNext(ChainOffset(n - 1))

EntryPos(o, i) == o + 2 + 12 * i

EntryCode(o, i) == U16(EntryPos(o, i))

EntryType(o, i) == U16(EntryPos(o, i) + 2)

EntryCount(o, i) == U32(EntryPos(o, i) + 4)

EntryLen(o, i) == EntryCount(o, i) * TIFF_SIZE(EntryType(o, i))

\* the entries of the IFD at o that carry a registered code
KnownEntries(o) == {i \in 0..(U16(o) - 1) : EntryCode(o, i) \in KnownTagCodes}

\* the entries of the IFD at o that an entry-skipping parse keeps
KeptEntries(o) == {i \in KnownEntries(o) : EntryType(o, i) \in KnownTypes}

\* entry i is the last one of the IFD at o with its code
LastOfCode(o, i) == \A j \in KnownEntries(o) : EntryCode(o, j) = EntryCode(o, i) => j <= i

\* the chunks that were ready when entry i of the IFD at o was decided
ReadyAt(o, i) == (CHOOSE r \in parseLog : r.offset = o /\ r.i = i).ready

\* CogTifImage.tileCount
TileCount(img) ==
    [nx |-> CeilDiv(img["ImageWidth"].v, img["TileWidth"].v),
     ny |-> CeilDiv(img["ImageLength"].v, img["TileLength"].v)]

\* a tiled image whose two tile arrays are held as arrays, one element a tile
TiledWithArrays(img) ==
    /\ IsNum(img, "ImageWidth") /\ IsNum(img, "ImageLength")
    /\ IsNum(img, "TileWidth") /\ IsNum(img, "TileLength")
    /\ "TileOffsets" \in DOMAIN img /\ img["TileOffsets"].k = "arr"
    /\ "TileByteCounts" \in DOMAIN img /\ img["TileByteCounts"].k = "arr"
    /\ Len(img["TileOffsets"].v) = TileCount(img).nx * TileCount(img).ny
    /\ Len(img["TileByteCounts"].v) = TileCount(img).nx * TileCount(img).ny

Started(c) == calls[c].pc # "idle"

(***************************************************************************)
(* C1.  For a tiled image and every (x, y) inside its nx by ny tile grid,  *)
(* getTileRaw(x, y, z) does not fail, takes the offset and the byte count  *)
(* at the row-major index y * nx + x, and returns exactly those bytes of   *)
(* the stream.  (Stated for images whose tile arrays were parsed as        *)
(* arrays.)                                                                *)
(***************************************************************************)
C1_RowMajorTile ==
    \A c \in Callers :
        (/\ Started(c)
         /\ calls[c].z < Len(images)
         /\ TiledWithArrays(images[calls[c].z + 1])
         /\ calls[c].x < TileCount(images[calls[c].z + 1]).nx
         /\ calls[c].y < TileCount(images[calls[c].z + 1]).ny)
        => LET img == images[calls[c].z + 1]
               idx == calls[c].y * TileCount(img).nx + calls[c].x
           IN  /\ calls[c].pc # "failed"
               /\ ~calls[c].undef
               /\ calls[c].offset = img["TileOffsets"].v[idx + 1]
               /\ calls[c].byteCount = img["TileByteCounts"].v[idx + 1]
               /\ calls[c].pc = "done" =>
                    calls[c].bytes = SubSeq(bytes, img["TileOffsets"].v[idx + 1] + 1,
                                            img["TileOffsets"].v[idx + 1]
                                              + img["TileByteCounts"].v[idx + 1])

(***************************************************************************)
(* C2.  Two getTileRaw calls with the same arguments that are in flight    *)
(* together return the same bytes, and the backing store receives at most  *)
(* one range read per chunk id: a read of a chunk that is being fetched    *)
(* waits for that fetch.                                                   *)
(***************************************************************************)
C2_CoalescedFetch ==
    /\ \A k \in DOMAIN requests : requests[k] <= 1
    /\ \A k \in DOMAIN chunks : chunks[k] # "empty" => requests[k] = 1
    /\ \A c, d \in Callers :
          (/\ calls[c].pc = "done" /\ calls[d].pc = "done"
           /\ calls[c].x = calls[d].x /\ calls[c].y = calls[d].y /\ calls[c].z = calls[d].z
           /\ ~calls[c].undef /\ ~calls[d].undef)
          => /\ calls[c].bytes = calls[d].bytes
             /\ calls[c].bytes = SubSeq(bytes, calls[c].offset + 1,
                                        calls[c].offset + calls[c].byteCount)

\* both callers asked for the same tile, the second while the first's chunk
\* was being fetched, and both have their bytes
C2_Witness ==
    /\ calls["a"].pc = "done" /\ calls["b"].pc = "done"
    /\ calls["a"].x = calls["b"].x /\ calls["a"].y = calls["b"].y /\ calls["a"].z = calls["b"].z
    /\ ~calls["a"].joined /\ calls["b"].joined
    /\ calls["a"].bytes # <<>>

(***************************************************************************)
(* C3.  init() is a header gate: with the byte-order mark 0x4D4D it fails  *)
(* (unsupported byte order) and with a version other than 42 it fails      *)
(* (unsupported version, the version read being kept); in both cases       *)
(* nothing but the header has been read and images is empty.               *)
(***************************************************************************)
C3_HeaderGate ==
    /\ (task.pc \notin {"new", "endian"} /\ U16(0) = ENDIAN_BIG)
       => /\ task.pc = "failed"
          /\ task.error = "UnsupportedByteOrder"
          /\ images = <<>>
          /\ reads = {[offset |-> 0, length |-> 2]}
    /\ (task.pc \notin {"new", "endian", "version"} /\ U16(0) = ENDIAN_LITTLE /\ U16(2) # 42)
       => /\ task.pc = "failed"
          /\ task.error = "UnsupportedVersion"
          /\ version = U16(2)
          /\ images = <<>>
          /\ reads = {[offset |-> 0, length |-> 2], [offset |-> 2, length |-> 2]}

\* init() has failed on a version 43 (BigTIFF) header
C3_Witness ==
    /\ task.pc = "failed"
    /\ task.error = "UnsupportedVersion"
    /\ version = VERSION_BIGTIFF
    /\ images = <<>>

(***************************************************************************)
(* C4.  init() walks the IFD chain in order: images[i] is the IFD at the   *)
(* i-th offset of the chain, the IFD being read is always the one after    *)
(* the last image appended, the walk ends at the first next-IFD offset     *)
(* equal to 0, and once init() has resolved no step changes images.        *)
(***************************************************************************)
C4_ChainState ==
    /\ Len(ifdOffsets) = Len(images)
    /\ \A n \in 1..Len(images) :
          /\ ifdOffsets[n] = ChainOffset(n)
          /\ DOMAIN images[n] = {TIFF_TAG(EntryCode(ChainOffset(n), i)) : i \in KnownEntries(ChainOffset(n))}
    /\ task.pc \in {"tagCount", "tagCode", "tagType", "count", "inline", "valueOffset",
                    "value", "nextOffset"}
       => /\ task.offset = ChainOffset(Len(images) + 1)
          /\ \A n \in 1..Len(images) : IfdNext(ChainOffset(n)) # 0
    /\ task.pc = "done"
       => /\ Len(images) >= 1
          /\ IfdNext(ChainOffset(Len(images))) = 0
          /\ \A n \in 1..(Len(images) - 1) : IfdNext(ChainOffset(n)) # 0

C4_ChainOrder == [](C4_ChainState) /\ [][task.pc = "done" => images' = images]_vars

\* init() has resolved with two images and a getTileRaw call has returned
C4_Witness ==
    /\ task.pc = "done"
    /\ Len(images) = 2
    /\ ifdOffsets = <<26, 116>>
    /\ \E c \in Callers : calls[c].pc = "done"

(***************************************************************************)
(* C5.  In a parsed IFD a tag is held as a decoded value exactly if its    *)
(* value is at most 4 bytes long (then decoded from the entry's own 4      *)
(* value bytes) or all chunks of its value were ready when its entry was   *)
(* parsed; otherwise it is held lazy with (value offset, type, count), and *)
(* the source was never asked to read the value.                           *)
(***************************************************************************)
C5_EagerIffInlineOrResident ==
    \A n \in 1..Len(images) :
        \A i \in KeptEntries(ifdOffsets[n]) :
            LastOfCode(ifdOffsets[n], i) =>
            LET o == ifdOffsets[n]
                name == TIFF_TAG(EntryCode(o, i))
                len == EntryLen(o, i)
                valueOffset == U32(EntryPos(o, i) + 8)
                resident == Covered(valueOffset, len) \subseteq ReadyAt(o, i)
            IN  /\ name \in DOMAIN images[n]
                /\ (images[n][name].k # "lazy") <=> (len <= 4 \/ resident)
                /\ len <= 4 =>
                     LET value == ReadType(EntryPos(o, i) + 8, EntryType(o, i), EntryCount(o, i))
                     IN  /\ images[n][name].k = value.k
                         /\ images[n][name].v = value.v
                /\ (len > 4 /\ resident) =>
                     LET value == ReadType(valueOffset, EntryType(o, i), EntryCount(o, i))
                     IN  /\ images[n][name].k = value.k
                         /\ images[n][name].v = value.v
                /\ images[n][name].k = "lazy" =>
                     /\ images[n][name].offset = valueOffset
                     /\ images[n][name].type = EntryType(o, i)
                     /\ images[n][name].count = EntryCount(o, i)
                     /\ [offset |-> valueOffset, length |-> len] \notin reads

\* an IFD has been parsed with TileOffsets (16 bytes out of line, not resident)
\* held lazy and TileByteCounts (exactly 4 bytes) decoded inline
C5_Witness ==
    /\ task.pc = "done"
    /\ Len(images) = 1
    /\ "TileOffsets" \in DOMAIN images[1] /\ images[1]["TileOffsets"].k = "lazy"
    /\ "TileByteCounts" \in DOMAIN images[1] /\ images[1]["TileByteCounts"].k = "arr"
    /\ Len(images[1]["TileByteCounts"].v) = 4

\* the entry of the IFD of image n for the tag code was out of line and its
\* value was not resident when it was parsed
ParsedLazy(n, code) ==
    \E i \in KeptEntries(ifdOffsets[n]) :
        /\ EntryCode(ifdOffsets[n], i) = code
        /\ LastOfCode(ifdOffsets[n], i)
        /\ EntryLen(ifdOffsets[n], i) > 4
        /\ ~(Covered(U32(EntryPos(ifdOffsets[n], i) + 8), EntryLen(ifdOffsets[n], i))
               \subseteq ReadyAt(ifdOffsets[n], i))

(***************************************************************************)
(* C6.  When TileOffsets of image z was left lazy by the parse, a          *)
(* getTileRaw on that image resolves it: the source is asked to read the   *)
(* tag's value, the resolved array is kept on the image (the tag is no     *)
(* longer lazy), and the call addresses a tile through it.                 *)
(***************************************************************************)
C6_LazyTagResolved ==
    \A c \in Callers :
        (/\ Started(c)
         /\ calls[c].z < Len(images)
         /\ ParsedLazy(calls[c].z + 1, 324))
        => LET o == ifdOffsets[calls[c].z + 1]
               i == CHOOSE j \in KeptEntries(o) : EntryCode(o, j) = 324 /\ LastOfCode(o, j)
           IN  /\ images[calls[c].z + 1]["TileOffsets"].k # "lazy"
               /\ [offset |-> U32(EntryPos(o, i) + 8), length |-> EntryLen(o, i)] \in reads
               /\ ~calls[c].undef

(***************************************************************************)
(* C7.  On a tiled image getTileRaw(x, y, z) fails with TileOutOfRange     *)
(* whenever x is not below nx or y is not below ny, before any tile bytes  *)
(* are asked for.                                                          *)
(***************************************************************************)
C7_TileOutOfRange ==
    \A c \in Callers :
        (/\ Started(c)
         /\ calls[c].z < Len(images)
         /\ TiledWithArrays(images[calls[c].z + 1])
         /\ \/ calls[c].x >= TileCount(images[calls[c].z + 1]).nx
            \/ calls[c].y >= TileCount(images[calls[c].z + 1]).ny)
        => /\ calls[c].pc = "failed"
           /\ calls[c].error = "TileOutOfRange"

(***************************************************************************)
(* C8.  getTileRaw(x, y, z) fails with NoSuchOverview when images[z] is    *)
(* absent, and fails when images[z] has no TileWidth tag, in both cases    *)
(* before the source is asked for bytes.  (Any failure raised before the   *)
(* source is asked is taken here as the failure for an untiled image.)     *)
(***************************************************************************)
C8_AbsentOrUntiled ==
    \A c \in Callers :
        Started(c) =>
            /\ calls[c].z >= Len(images)
               => calls[c].pc = "failed" /\ calls[c].error = "NoSuchOverview"
            /\ (calls[c].z < Len(images) /\ "TileWidth" \notin DOMAIN images[calls[c].z + 1])
               => calls[c].pc = "failed"

(***************************************************************************)
(* C9.  For the minimal 10-byte stream init() ends resolved with version   *)
(* 42 and no image.                                                        *)
(***************************************************************************)
C9_MinimalHeader ==
    (bytes = FileMinimal /\ task.pc \in {"done", "failed"})
    => /\ task.pc = "done"
       /\ version = VERSION_TIFF
       /\ images = <<>>

(***************************************************************************)
(* C9, amended.  For the minimal 10-byte stream init() reads version 42    *)
(* and the empty IFD at 8; the next-IFD offset it then reads at 10 lies    *)
(* past the end of the stream.  If that read fails, init() fails with      *)
(* images empty; otherwise init() resolves with exactly one image, which   *)
(* has no tags.  It never resolves with images empty.                      *)
(***************************************************************************)
C9_MinimalHeaderOneImage ==
    bytes = FileMinimal =>
        /\ task.pc = "done"
           => /\ version = VERSION_TIFF
              /\ Len(images) = 1
              /\ DOMAIN images[1] = {}
              /\ ifdOffsets = <<8>>
        /\ task.pc = "failed"
           => /\ task.error = "ShortRead"
              /\ version = VERSION_TIFF
              /\ images = <<>>
              /\ task.offset = 8 /\ task.tagCount = 0

\* init() has resolved on the minimal stream, with its one empty image
C9_Witness ==
    /\ bytes = FileMinimal
    /\ task.pc = "done"
    /\ version = VERSION_TIFF
    /\ Len(images) = 1
    /\ DOMAIN images[1] = {}

(***************************************************************************)
(* C10.  An entry with an unregistered tag code or with a type code that   *)
(* is not in the type-size table is skipped without aborting the parse:    *)
(* the parse of an IFD is never ended by such an entry, and a parsed image *)
(* holds exactly the other entries' tags, their number being the tag count *)
(* less the skipped entries.                                               *)
(***************************************************************************)
C10_SkipUnknown ==
    /\ task.pc = "failed" => task.error \in {"UnsupportedByteOrder", "UnsupportedVersion",
                                             "OffsetOutOfRange", "ShortRead"}
    /\ \A n \in 1..Len(images) :
          LET o == ifdOffsets[n]
          IN  /\ DOMAIN images[n] = {TIFF_TAG(EntryCode(o, i)) : i \in KeptEntries(o)}
              /\ (\A i, j \in KeptEntries(o) : EntryCode(o, i) = EntryCode(o, j) => i = j)
                 => Cardinality(DOMAIN images[n])
                      = U16(o) - Cardinality((0..(U16(o) - 1)) \ KeptEntries(o))

\* entry i is the first one of the IFD at o with its code
FirstOfCode(o, i) == \A j \in KnownEntries(o) : EntryCode(o, j) = EntryCode(o, i) => i <= j

\* the stored tag value is the one entry i of the IFD at o carries: decoded
\* from the entry's own value bytes, decoded from its value offset, or held
\* lazy on that value offset
HoldsEntry(stored, o, i) ==
    LET valueOffset == U32(EntryPos(o, i) + 8)
        at == IF EntryLen(o, i) <= 4 THEN EntryPos(o, i) + 8 ELSE valueOffset
        value == ReadType(at, EntryType(o, i), EntryCount(o, i))
    IN  IF stored.k = "lazy"
        THEN /\ EntryLen(o, i) > 4
             /\ stored.offset = valueOffset
             /\ stored.type = EntryType(o, i)
             /\ stored.count = EntryCount(o, i)
        ELSE stored.k = value.k /\ stored.v = value.v

(***************************************************************************)
(* C11.  When a tag code appears in more than one entry of an IFD, the     *)
(* parsed image holds the value of the first of these entries: a later     *)
(* entry with the same code does not overwrite it.                         *)
(***************************************************************************)
C11_FirstOccurrenceKept ==
    \A n \in 1..Len(images) :
        \A i \in KeptEntries(ifdOffsets[n]) :
            FirstOfCode(ifdOffsets[n], i) =>
                /\ TIFF_TAG(EntryCode(ifdOffsets[n], i)) \in DOMAIN images[n]
                /\ HoldsEntry(images[n][TIFF_TAG(EntryCode(ifdOffsets[n], i))],
                              ifdOffsets[n], i)

(***************************************************************************)
(* C12.  In both variants of CogTifImage, origin fails with                *)
(* MissingTag(ModelTiepoint) when the ModelTiepoint tag is absent or its   *)
(* length is not 6, resolution fails with MissingTag(ModelPixelScale) when *)
(* ModelPixelScale is absent, and neither accessor returns null.           *)
(***************************************************************************)
C12_AccessorsFail ==
    \A variant \in Variants :
        /\ (/\ got[variant].origin.k # "none"
            /\ \/ tags.ModelTiepoint.k = "null"
               \/ Len(tags.ModelTiepoint.v) # 6)
           => /\ got[variant].origin.k = "throw"
              /\ got[variant].origin.error = "MissingTag(ModelTiepoint)"
        /\ (got[variant].resolution.k # "none" /\ tags.ModelPixelScale.k = "null")
           => /\ got[variant].resolution.k = "throw"
              /\ got[variant].resolution.error = "MissingTag(ModelPixelScale)"
        /\ got[variant].origin.k # "null"
        /\ got[variant].resolution.k # "null"

(***************************************************************************)
(* C13.  init() fails with 'Offset out of range' only when the first IFD   *)
(* offset lies outside the source: after a little-endian version-42 header *)
(* whose first IFD offset is inside the source, whether or not its chunk   *)
(* is resident after the header read, init() does not fail so and goes on  *)
(* to read the IFD at that offset, its chunk being fetched on demand.      *)
(***************************************************************************)
C13_FetchOnDemand ==
    (/\ task.pc \notin {"new", "endian", "version", "first"}
     /\ U16(0) = ENDIAN_LITTLE
     /\ U16(2) = VERSION_TIFF
     /\ U32(4) < Len(bytes))
    => /\ task.error # "OffsetOutOfRange"
       /\ [offset |-> U32(4), length |-> 2] \in reads
       /\ requests[U32(4) \div ChunkSize] = 1

====
